---- MODULE Spec2Model ----
(***************************************************************************)
(* Model of OpenPNM.Base.Network (src/OpenPNM/Base/__Network__.py): the    *)
(* property dictionaries, the adjacency / incidence matrix caches in the   *)
(* three sparse layouts, the neighbour queries and the interpolation; and   *)
(* of OpenPNM.Base.Controller (src/OpenPNM/Base/__Controller__.py): the    *)
(* simulation dictionary and the objects it tracks.                        *)
(*                                                                         *)
(* Conventions.  A numpy array is a TLA+ sequence; element ID i of an      *)
(* array is the sequence's entry i+1, pore and throat IDs stay 0-based.    *)
(* A method is an operator  m(self, args)  whose value is the record       *)
(*   [raised |-> the exception ("none" when it returns),                   *)
(*    self   |-> the object after the call,                                *)
(*    value  |-> what it returns].                                         *)
(* The indexing  rows[[Pnums]]  is read as the numpy the code was written  *)
(* for reads it: a list holding one sequence is an index tuple, so the     *)
(* result has one row per entry of Pnums.                                  *)
(***************************************************************************)
EXTENDS Integers, Sequences, FiniteSets, TLC

VARIABLES pore_properties, throat_properties, adjacency_matrix,
          incidence_matrix, ret, simulation, objects

vars == <<pore_properties, throat_properties, adjacency_matrix,
          incidence_matrix, ret, simulation, objects>>

(***************************************************************************)
(* Bounds of the model.                                                    *)
(***************************************************************************)
MaxP == 3
MaxT == 2
MaxLen == 2
MaxVal == 2
LineLen == 5

(***************************************************************************)
(* Type categories: the default filters of the code.                       *)
(***************************************************************************)
PoreTypeMax == 6
ThroatTypeMin == -6
DefaultPtype == 0..PoreTypeMax
DefaultTtype == 0..PoreTypeMax
DefaultCountTtype == ThroatTypeMin..PoreTypeMax
InternalType == 0
Int8Max == 127

None == "None"

(***************************************************************************)
(* numpy helpers.                                                          *)
(***************************************************************************)
Range(s) == {s[i] : i \in DOMAIN s}

MinOf(S) == CHOOSE m \in S : \A x \in S : m <= x

RECURSIVE SortSet(_)
\* np.unique on the values of a set: ascending, no duplicates
SortSet(S) == IF S = {} THEN <<>>
              ELSE LET m == MinOf(S) IN <<m>> \o SortSet(S \ {m})

unique(a) == SortSet(Range(a))

\* np.in1d(a, test): elementwise membership
in1d(a, test) == [i \in DOMAIN a |-> a[i] \in test]

\* a[mask] for a boolean mask: the entries at the positions the mask marks.
\* The numpy the code was written for takes a mask of another length too,
\* as long as it marks no position outside a (MaskFits).
Mask(a, m) == LET idx == SortSet({i \in DOMAIN a \cap DOMAIN m : m[i]})
              IN  [k \in 1..Len(idx) |-> a[idx[k]]]

MaskFits(a, m) == \A i \in DOMAIN m : m[i] => i \in DOMAIN a

\* a[ids] for a list of 0-based IDs, all in range
Take(a, ids) == [k \in 1..Len(ids) |-> a[ids[k] + 1]]

InRange(a, ids) == \A k \in DOMAIN ids : ids[k] >= 0 /\ ids[k] < Len(a)

RECURSIVE hstack(_)
hstack(rows) == IF rows = <<>> THEN <<>> ELSE Head(rows) \o hstack(Tail(rows))

RECURSIVE SumIdx(_, _)
SumIdx(S, data) == IF S = {} THEN 0
                   ELSE LET k == MinOf(S) IN data[k] + SumIdx(S \ {k}, data)

ones(n) == [i \in 1..n |-> 1]

\* sp.r_[0:n]
r_(n) == [i \in 1..n |-> i - 1]

Abs(x) == IF x < 0 THEN -x ELSE x

RECURSIVE Gcd(_, _)
Gcd(a, b) == IF b = 0 THEN a ELSE Gcd(b, a % b)

\* A float is the fraction num/den in lowest terms, den > 0; nan is 0/0.
Frac(num, den) == LET g == Gcd(Abs(num), den)
                  IN  [num |-> num \div g, den |-> den \div g]

Float(v) == Frac(v, 1)

NaN == [num |-> 0, den |-> 0]

FracAdd(a, b) == IF a.den = 0 \/ b.den = 0 THEN NaN
                 ELSE Frac(a.num * b.den + b.num * a.den, a.den * b.den)

RECURSIVE FracSum(_)
FracSum(vals) == IF vals = <<>> THEN Float(0)
                 ELSE FracAdd(Head(vals), FracSum(Tail(vals)))

\* the sum divided by the count
MeanOfSum(total, n) == IF total.den = 0 THEN NaN ELSE Frac(total.num, total.den * n)

\* sp.mean: the mean of no values is nan
mean(vals) == IF vals = <<>> THEN NaN ELSE MeanOfSum(FracSum(vals), Len(vals))

\* a value stored in an int8 array
Int8(x) == ((x + Int8Max + 1) % (2 * (Int8Max + 1))) - (Int8Max + 1)

HasKey(d, k) == k \in DOMAIN d

(***************************************************************************)
(* scipy.sparse: the three layouts.                                        *)
(***************************************************************************)
EmptyDict == <<>>

SetItem(d, k, v) == (k :> v) @@ d

\* sprs.coo_matrix((data,(row,col)),shape) rejects an index outside shape
CooValid(row, col, shape) ==
    /\ \A k \in DOMAIN row : row[k] >= 0 /\ row[k] < shape[1]
    /\ \A k \in DOMAIN col : col[k] >= 0 /\ col[k] < shape[2]

\* the coordinate list keeps the triplets as given, duplicates included
coo_matrix(data, row, col, shape) ==
    [fmt |-> "coo", shape |-> shape, row |-> row, col |-> col, data |-> data]

\* the column IDs stored in row i (0-based), ascending
CsrRowCols(m, i) == SortSet({m.col[k] : k \in {k \in DOMAIN m.row : m.row[k] = i}})

\* duplicate (i,j) triplets are summed into one stored entry
CsrRowData(m, i) ==
    LET cols == CsrRowCols(m, i)
    IN  [j \in 1..Len(cols) |->
            SumIdx({k \in DOMAIN m.row : m.row[k] = i /\ m.col[k] = cols[j]}, m.data)]

RECURSIVE CsrPtr(_, _)
\* indptr[i]: the number of entries stored in the rows before row i
CsrPtr(m, i) == IF i = 0 THEN 0 ELSE CsrPtr(m, i - 1) + Len(CsrRowCols(m, i - 1))

tocsr(m) ==
    [fmt     |-> "csr",
     shape   |-> m.shape,
     indptr  |-> [i \in 1..(m.shape[1] + 1) |-> CsrPtr(m, i - 1)],
     indices |-> hstack([i \in 1..m.shape[1] |-> CsrRowCols(m, i - 1)]),
     data    |-> hstack([i \in 1..m.shape[1] |-> CsrRowData(m, i - 1)])]

\* csr_matrix.tolil: row n is indices[indptr[n]:indptr[n+1]]
csr_tolil(c) ==
    [fmt   |-> "lil",
     shape |-> c.shape,
     rows  |-> [n \in 1..c.shape[1] |->
                  SubSeq(c.indices, c.indptr[n] + 1, c.indptr[n + 1])],
     data  |-> [n \in 1..c.shape[1] |->
                  SubSeq(c.data, c.indptr[n] + 1, c.indptr[n + 1])]]

\* coo_matrix.tolil goes through the compressed-row layout
tolil(m) == csr_tolil(tocsr(m))

(***************************************************************************)
(* Network.get_num_pores / get_num_throats                                 *)
(***************************************************************************)
CountIn(a, types) == Cardinality({i \in DOMAIN a : a[i] \in types})

get_num_pores(self, Ptype) ==
    IF HasKey(self.pore_properties, "type")
    THEN CountIn(self.pore_properties["type"], Ptype)
    ELSE 0

get_num_throats(self, Ttype) ==
    IF HasKey(self.throat_properties, "type")
    THEN CountIn(self.throat_properties["type"], Ttype)
    ELSE 0

(***************************************************************************)
(* Network.create_adjacency_matrix.  V is the empty dictionary (no         *)
(* argument) or a dictionary of one key: name :> weights.                  *)
(***************************************************************************)
\* "if V:" on a dictionary, and list(V.keys())[0]
Truthy(V) == DOMAIN V # {}

FirstKey(V) == CHOOSE k \in DOMAIN V : TRUE

Raise(self, exc) == [raised |-> exc, self |-> self, value |-> None]

Return(self, v) == [raised |-> "none", self |-> self, value |-> v]

\* dropzeros keeps the entries the comparison  dataset > 0  selects
DropMask(dataset, dropzeros) ==
    IF dropzeros THEN [i \in DOMAIN dataset |-> dataset[i] > 0]
    ELSE [i \in DOMAIN dataset |-> TRUE]

\* StoreLayouts that writes the three layouts whatever sprsfmt names
StoreLayoutsAll(cache, tprop, temp, sprsfmt) ==
    [coo |-> SetItem(cache.coo, tprop, temp),
     csr |-> SetItem(cache.csr, tprop, tocsr(temp)),
     lil |-> SetItem(cache.lil, tprop, tolil(temp))]

\* StoreLayouts whose coordinate list grows: the triplets of a build are
\* appended to those the entry already holds instead of replacing them
StoreLayoutsAppending(cache, tprop, temp, sprsfmt) ==
    [coo |-> IF sprsfmt \in {"coo", "all"}
             THEN SetItem(cache.coo, tprop,
                     IF HasKey(cache.coo, tprop)
                     THEN [temp EXCEPT !.row = cache.coo[tprop].row \o @,
                                       !.col = cache.coo[tprop].col \o @,
                                       !.data = cache.coo[tprop].data \o @]
                     ELSE temp)
             ELSE cache.coo,
     csr |-> IF sprsfmt \in {"csr", "all"}
             THEN SetItem(cache.csr, tprop, tocsr(temp)) ELSE cache.csr,
     lil |-> IF sprsfmt \in {"lil", "all"}
             THEN SetItem(cache.lil, tprop, tolil(temp)) ELSE cache.lil]

StoreLayouts(cache, tprop, temp, sprsfmt) ==
    [coo |-> IF sprsfmt \in {"coo", "all"}
             THEN SetItem(cache.coo, tprop, temp) ELSE cache.coo,
     csr |-> IF sprsfmt \in {"csr", "all"}
             THEN SetItem(cache.csr, tprop, tocsr(temp)) ELSE cache.csr,
     lil |-> IF sprsfmt \in {"lil", "all"}
             THEN SetItem(cache.lil, tprop, tolil(temp)) ELSE cache.lil]

\* "if sprsfmt != 'all': return cache[sprsfmt][tprop]"
Built(cache, tprop, sprsfmt) ==
    IF sprsfmt # "all" THEN cache[sprsfmt][tprop] ELSE None

AdjacencyStored(self, tprop, sprsfmt, cache) ==
    Return([self EXCEPT !.adjacency_matrix = cache], Built(cache, tprop, sprsfmt))

Column(conn, c) == [k \in DOMAIN conn |-> conn[k][c]]

\* AdjacencyFrom without the "if sym:" block: the triplets are never mirrored
AdjacencyFromUnmirrored(self, tprop, conn, data, Np, sprsfmt, sym) ==
    IF ~CooValid(Column(conn, 1), Column(conn, 2), <<Np, Np>>)
    THEN Raise(self, "ValueError")
    ELSE AdjacencyStored(self, tprop, sprsfmt,
            StoreLayouts(self.adjacency_matrix, tprop,
                coo_matrix(data, Column(conn, 1), Column(conn, 2), <<Np, Np>>),
                sprsfmt))

\* the triplets and the matrix of the adjacency build
AdjacencyFrom(self, tprop, conn, data, Np, sprsfmt, sym) ==
    IF ~CooValid(Column(conn, 1), Column(conn, 2), <<Np, Np>>)
    THEN Raise(self, "ValueError")
    ELSE AdjacencyStored(self, tprop, sprsfmt,
            StoreLayouts(self.adjacency_matrix, tprop,
                coo_matrix(IF sym THEN data \o data ELSE data,
                           IF sym THEN Column(conn, 1) \o Column(conn, 2)
                                  ELSE Column(conn, 1),
                           IF sym THEN Column(conn, 2) \o Column(conn, 1)
                                  ELSE Column(conn, 2),
                           <<Np, Np>>),
                sprsfmt))

AdjacencyMasked(self, tprop, dataset, ind, Np, sprsfmt, sym) ==
    IF ~MaskFits(self.throat_properties["connections"], ind)
    THEN Raise(self, "IndexError")
    ELSE AdjacencyFrom(self, tprop, Mask(self.throat_properties["connections"], ind),
                       Mask(dataset, ind), Np, sprsfmt, sym)

create_adjacency_matrix(self, V, sprsfmt, dropzeros, sym) ==
    IF Truthy(V) /\ Len(V[FirstKey(V)]) # get_num_throats(self, DefaultCountTtype)
    THEN Raise(self, "Exception")
    ELSE AdjacencyMasked(self,
            IF Truthy(V) THEN FirstKey(V) ELSE "connections",
            IF Truthy(V) THEN V[FirstKey(V)]
            ELSE ones(get_num_throats(self, DefaultCountTtype)),
            DropMask(IF Truthy(V) THEN V[FirstKey(V)]
                     ELSE ones(get_num_throats(self, DefaultCountTtype)), dropzeros),
            get_num_pores(self, DefaultPtype), sprsfmt, sym)

(***************************************************************************)
(* Network.create_incidence_matrix                                         *)
(***************************************************************************)
IncidenceStored(self, tprop, sprsfmt, cache) ==
    Return([self EXCEPT !.incidence_matrix = cache], Built(cache, tprop, sprsfmt))

IncidenceFrom(self, tprop, conn, col, data, Np, Nt, sprsfmt) ==
    IF ~CooValid(Column(conn, 1) \o Column(conn, 2), col \o col, <<Np, Nt>>)
    THEN Raise(self, "ValueError")
    ELSE IncidenceStored(self, tprop, sprsfmt,
            StoreLayouts(self.incidence_matrix, tprop,
                coo_matrix(data \o data, Column(conn, 1) \o Column(conn, 2),
                           col \o col, <<Np, Nt>>),
                sprsfmt))

IncidenceMasked(self, tprop, dataset, ind, Np, Nt, sprsfmt) ==
    IF ~MaskFits(self.throat_properties["connections"], ind)
            \/ ~MaskFits(self.throat_properties["numbering"], ind)
    THEN Raise(self, "IndexError")
    ELSE IncidenceFrom(self, tprop, Mask(self.throat_properties["connections"], ind),
                       Mask(self.throat_properties["numbering"], ind),
                       Mask(dataset, ind), Np, Nt, sprsfmt)

create_incidence_matrix(self, V, sprsfmt, dropzeros) ==
    IncidenceMasked(self,
        IF Truthy(V) THEN FirstKey(V) ELSE "connections",
        IF Truthy(V) THEN V[FirstKey(V)]
        ELSE ones(get_num_throats(self, DefaultCountTtype)),
        DropMask(IF Truthy(V) THEN V[FirstKey(V)]
                 ELSE ones(get_num_throats(self, DefaultCountTtype)), dropzeros),
        get_num_pores(self, DefaultPtype),
        get_num_throats(self, DefaultCountTtype), sprsfmt)

(***************************************************************************)
(* Network.update                                                          *)
(***************************************************************************)
ThenIncidence(a) ==
    IF a.raised # "none" THEN a
    ELSE create_incidence_matrix(a.self, EmptyDict, "all", TRUE)

\* update without its second line: the incidence matrices are not rebuilt
update_adjacency_only(self) ==
    create_adjacency_matrix(self, EmptyDict, "all", TRUE, TRUE)

update(self) == ThenIncidence(create_adjacency_matrix(self, EmptyDict, "all", TRUE, TRUE))

(***************************************************************************)
(* Network.get_neighbor_pores                                              *)
(***************************************************************************)
\* cache['lil']['connections'].rows[[Pnums]]: KeyError when the entry is
\* absent, IndexError when an ID is outside the cached matrix
RowsLookup(cache, Pnums) ==
    IF ~HasKey(cache.lil, "connections") THEN [raised |-> "KeyError", value |-> None]
    ELSE IF ~InRange(cache.lil["connections"].rows, Pnums)
         THEN [raised |-> "IndexError", value |-> None]
    ELSE [raised |-> "none", value |-> Take(cache.lil["connections"].rows, Pnums)]

\* [asarray(x) for x in rows if x]: the empty rows are left out
NonEmptyRows(rows) == SelectSeq(rows, LAMBDA x : x # <<>>)

\* the entries of a whose type is in the filter, in the order of a
FilterByType(a, types, filter) == Mask(a, in1d(Take(types, a), filter))

\* a[~in1d(a, Pnums)]
WithoutInputs(a, Pnums) == Mask(a, [i \in DOMAIN a |-> a[i] \notin Range(Pnums)])

\* props['type'][ids], then the filter: the lookup raises on a missing
\* 'type' array and on an ID outside it
TypeFiltered(self, props, ids, filter) ==
    IF ~HasKey(props, "type") THEN Raise(self, "KeyError")
    ELSE IF ~InRange(props["type"], ids) THEN Raise(self, "IndexError")
    ELSE Return(self, FilterByType(ids, props["type"], filter))

\* the loop of the flatten=False branch, one row after the other
RowsTypeFiltered(self, props, rows, filter) ==
    IF rows = <<>> THEN Return(self, <<>>)
    ELSE IF ~HasKey(props, "type") THEN Raise(self, "KeyError")
    ELSE IF \E i \in DOMAIN rows : ~InRange(props["type"], rows[i])
         THEN Raise(self, "IndexError")
    ELSE Return(self, [i \in DOMAIN rows |-> FilterByType(rows[i], props["type"], filter)])

\* the flatten=True branch: sp.hstack raises on an empty list of rows
FlatPores(self, kept, Pnums, Ptype) ==
    IF kept = <<>> THEN Raise(self, "ValueError")
    ELSE TypeFiltered(self, self.pore_properties,
                      unique(WithoutInputs(hstack(kept), Pnums)), Ptype)

PoresFromRows(self, second, Pnums, Ptype, flatten) ==
    IF second.raised # "none" THEN Raise(self, second.raised)
    ELSE IF flatten THEN FlatPores(self, NonEmptyRows(second.value), Pnums, Ptype)
    ELSE RowsTypeFiltered(self, self.pore_properties, second.value, Ptype)

\* after the try / except: built is the outcome of the except clause
PoresAfterTry(built, Pnums, Ptype, flatten) ==
    IF built.raised # "none" THEN built
    ELSE PoresFromRows(built.self, RowsLookup(built.self.adjacency_matrix, Pnums),
                       Pnums, Ptype, flatten)

get_neighbor_pores(self, Pnums, Ptype, flatten) ==
    PoresAfterTry(
        IF RowsLookup(self.adjacency_matrix, Pnums).raised = "none"
        THEN Return(self, None)
        ELSE create_adjacency_matrix(self, EmptyDict, "all", TRUE, TRUE),
        Pnums, Ptype, flatten)

(***************************************************************************)
(* Network.get_neighbor_throats                                            *)
(***************************************************************************)
FlatThroats(self, kept, Ttype) ==
    IF kept = <<>> THEN Raise(self, "ValueError")
    ELSE TypeFiltered(self, self.throat_properties, unique(hstack(kept)), Ttype)

ThroatsFromRows(self, second, Ttype, flatten) ==
    IF second.raised # "none" THEN Raise(self, second.raised)
    ELSE IF flatten THEN FlatThroats(self, NonEmptyRows(second.value), Ttype)
    ELSE RowsTypeFiltered(self, self.throat_properties, second.value, Ttype)

ThroatsAfterTry(built, Pnums, Ttype, flatten) ==
    IF built.raised # "none" THEN built
    ELSE ThroatsFromRows(built.self, RowsLookup(built.self.incidence_matrix, Pnums),
                         Ttype, flatten)

get_neighbor_throats(self, Pnums, Ttype, flatten) ==
    ThroatsAfterTry(
        IF RowsLookup(self.incidence_matrix, Pnums).raised = "none"
        THEN Return(self, None)
        ELSE create_incidence_matrix(self, EmptyDict, "all", TRUE),
        Pnums, Ttype, flatten)

(***************************************************************************)
(* Network.get_connecting_throat: P1 and P2 are single pore IDs            *)
(***************************************************************************)
intersect1d(a, b) == SortSet(Range(a) \cap Range(b))

ConnectingFromSecond(t1, t2) ==
    IF t2.raised # "none" THEN t2
    ELSE Return(t2.self, intersect1d(t1.value, t2.value))

ConnectingFromFirst(t1, P2) ==
    IF t1.raised # "none" THEN t1
    ELSE ConnectingFromSecond(t1, get_neighbor_throats(t1.self, <<P2>>, DefaultTtype, TRUE))

get_connecting_throat(self, P1, P2) ==
    ConnectingFromFirst(get_neighbor_throats(self, <<P1>>, DefaultTtype, TRUE), P2)

(***************************************************************************)
(* Network.get_num_neighbors                                               *)
(***************************************************************************)
\* num[i] = sp.size(neighborPs[i]), num an int8 array
RowSizes(neighborPs) ==
    IF neighborPs.raised # "none" THEN neighborPs
    ELSE Return(neighborPs.self,
                [i \in DOMAIN neighborPs.value |-> Int8(Len(neighborPs.value[i]))])

\* get_num_neighbors that does not hand Ptype on to get_neighbor_pores
get_num_neighbors_unfiltered(self, Pnums, Ptype) ==
    RowSizes(get_neighbor_pores(self, Pnums, DefaultPtype, FALSE))

get_num_neighbors(self, Pnums, Ptype) ==
    RowSizes(get_neighbor_pores(self, Pnums, Ptype, FALSE))

(***************************************************************************)
(* Network.interpolate_pore_values                                         *)
(***************************************************************************)
\* Pvals = zeros(Np); Pvals[i] = mean(Tvals[nTs[i]]) for i over the rows
PoreMeans(nTs, Tvals, Np) ==
    IF nTs.raised # "none" THEN nTs
    ELSE IF \E i \in DOMAIN nTs.value : ~InRange(Tvals, nTs.value[i])
         THEN Raise(nTs.self, "IndexError")
    ELSE Return(nTs.self,
                [p \in 1..Np |->
                    IF p <= Len(nTs.value) THEN mean(Take(Tvals, nTs.value[p]))
                    ELSE Float(0)])

\* interpolate_pore_values that fetches the neighbour throats before it
\* looks at the length of Tvals
interpolate_pore_values_fetch_first(self, Tvals) ==
    IF Len(Tvals) = 1 THEN Return(self, Tvals)
    ELSE IF Len(Tvals) # get_num_throats(self, DefaultCountTtype)
         THEN Raise(get_neighbor_throats(self, r_(get_num_pores(self, {InternalType})),
                                         DefaultTtype, FALSE).self, "Exception")
    ELSE PoreMeans(get_neighbor_throats(self, r_(get_num_pores(self, {InternalType})),
                                        DefaultTtype, FALSE),
                   Tvals, get_num_pores(self, DefaultPtype))

interpolate_pore_values(self, Tvals) ==
    IF Len(Tvals) = 1 THEN Return(self, Tvals)
    ELSE IF Len(Tvals) # get_num_throats(self, DefaultCountTtype)
         THEN Raise(self, "Exception")
    ELSE PoreMeans(get_neighbor_throats(self, r_(get_num_pores(self, {InternalType})),
                                        DefaultTtype, FALSE),
                   Tvals, get_num_pores(self, DefaultPtype))

(***************************************************************************)
(* Network.get_connected_pores / interpolate_throat_values                 *)
(***************************************************************************)
\* throat_properties['connections'][Tnums], then the optional flattening
get_connected_pores(self, Tnums, flatten) ==
    IF ~HasKey(self.throat_properties, "connections") THEN Raise(self, "KeyError")
    ELSE IF ~InRange(self.throat_properties["connections"], Tnums)
         THEN Raise(self, "IndexError")
    ELSE IF ~flatten
         THEN Return(self, Take(self.throat_properties["connections"], Tnums))
    ELSE IF Tnums = <<>> THEN Raise(self, "ValueError")
    ELSE Return(self, unique(hstack(Take(self.throat_properties["connections"], Tnums))))

\* Tvals = zeros(Nt); Tvals[i] = mean(Pvals[nPs[i]]) for i over the rows
ThroatMeans(nPs, Pvals, Nt) ==
    IF nPs.raised # "none" THEN nPs
    ELSE IF \E i \in DOMAIN nPs.value : ~InRange(Pvals, nPs.value[i])
         THEN Raise(nPs.self, "IndexError")
    ELSE IF Len(nPs.value) > Nt THEN Raise(nPs.self, "IndexError")
    ELSE Return(nPs.self,
                [t \in 1..Nt |->
                    IF t <= Len(nPs.value) THEN mean(Take(Pvals, nPs.value[t]))
                    ELSE Float(0)])

\* interpolate_throat_values that takes a throat's value from its first
\* end pore alone
interpolate_throat_values_first_end(self, Pvals) ==
    IF Len(Pvals) = 1 THEN Return(self, Pvals)
    ELSE IF Len(Pvals) # get_num_pores(self, DefaultPtype)
         THEN Raise(self, "Exception")
    ELSE Return(self, [t \in 1..get_num_throats(self, DefaultCountTtype) |->
                         Pvals[self.throat_properties["connections"][t][1] + 1]])

interpolate_throat_values(self, Pvals) ==
    IF Len(Pvals) = 1 THEN Return(self, Pvals)
    ELSE IF Len(Pvals) # get_num_pores(self, DefaultPtype)
         THEN Raise(self, "Exception")
    ELSE ThroatMeans(get_connected_pores(self,
                        r_(get_num_throats(self, DefaultCountTtype)), FALSE),
                     Pvals, get_num_throats(self, DefaultCountTtype))

(***************************************************************************)
(* The state machine.  self is the network object; ret records the last    *)
(* call made on it: its name, its arguments, the exception it raised and   *)
(* the value it returned.                                                  *)
(***************************************************************************)
Self == [pore_properties  |-> pore_properties,
         throat_properties |-> throat_properties,
         adjacency_matrix |-> adjacency_matrix,
         incidence_matrix |-> incidence_matrix]

PTypes == {0, 1}
TTypes == {-1, 0}

EmptyCache == [coo |-> EmptyDict, csr |-> EmptyDict, lil |-> EmptyDict]

NumP == Len(pore_properties["type"])
NumT == Len(throat_properties["connections"])

\* A populated network: __init__ leaves the caches empty, the generator has
\* filled the property dictionaries with well-formed arrays.
Populated(ptype, conns, ttype) ==
    /\ pore_properties = [type |-> ptype]
    /\ throat_properties = [connections |-> conns, type |-> ttype,
                            numbering |-> r_(Len(conns))]
    /\ adjacency_matrix = EmptyCache
    /\ incidence_matrix = EmptyCache
    /\ ret = [op |-> "__init__", args |-> <<>>, raised |-> "none", value |-> None]
    /\ simulation = EmptyDict
    /\ objects = <<>>

Pairs(n) == (0..(n - 1)) \X (0..(n - 1))

\* the outcome r of a method call becomes the next state
Call(r, op, args) ==
    /\ pore_properties' = r.self.pore_properties
    /\ throat_properties' = r.self.throat_properties
    /\ adjacency_matrix' = r.self.adjacency_matrix
    /\ incidence_matrix' = r.self.incidence_matrix
    /\ ret' = [op |-> op, args |-> args, raised |-> r.raised, value |-> r.value]
    /\ UNCHANGED <<simulation, objects>>

\* a caller appends a pore to the pore arrays
AddPore(ty) ==
    /\ NumP < MaxP
    /\ pore_properties' = [pore_properties EXCEPT !["type"] = Append(@, ty)]
    /\ ret' = [op |-> "add_pore", args |-> <<ty>>, raised |-> "none", value |-> None]
    /\ UNCHANGED <<throat_properties, adjacency_matrix, incidence_matrix,
                   simulation, objects>>

\* a caller appends a throat to the throat arrays
AddThroat(p1, p2, ty) ==
    /\ NumT < MaxT
    /\ throat_properties' =
          [throat_properties EXCEPT !["connections"] = Append(@, <<p1, p2>>),
                                    !["type"] = Append(@, ty),
                                    !["numbering"] = Append(@, NumT)]
    /\ ret' = [op |-> "add_throat", args |-> <<p1, p2, ty>>, raised |-> "none",
               value |-> None]
    /\ UNCHANGED <<pore_properties, adjacency_matrix, incidence_matrix,
                   simulation, objects>>

Update == Call(update(Self), "update", <<>>)

CreateAdjacencyMatrix(V, sprsfmt, dropzeros, sym) ==
    Call(create_adjacency_matrix(Self, V, sprsfmt, dropzeros, sym),
         "create_adjacency_matrix", <<V, sprsfmt, dropzeros, sym>>)

CreateIncidenceMatrix(V, sprsfmt, dropzeros) ==
    Call(create_incidence_matrix(Self, V, sprsfmt, dropzeros),
         "create_incidence_matrix", <<V, sprsfmt, dropzeros>>)

GetNeighborPores(Pnums, Ptype, flatten) ==
    Call(get_neighbor_pores(Self, Pnums, Ptype, flatten),
         "get_neighbor_pores", <<Pnums, Ptype, flatten>>)

GetNeighborThroats(Pnums, Ttype, flatten) ==
    Call(get_neighbor_throats(Self, Pnums, Ttype, flatten),
         "get_neighbor_throats", <<Pnums, Ttype, flatten>>)

GetConnectingThroat(P1, P2) ==
    Call(get_connecting_throat(Self, P1, P2), "get_connecting_throat", <<P1, P2>>)

GetNumNeighbors(Pnums, Ptype) ==
    Call(get_num_neighbors(Self, Pnums, Ptype), "get_num_neighbors", <<Pnums, Ptype>>)

InterpolatePoreValues(Tvals) ==
    Call(interpolate_pore_values(Self, Tvals), "interpolate_pore_values", <<Tvals>>)

InterpolateThroatValues(Pvals) ==
    Call(interpolate_throat_values(Self, Pvals), "interpolate_throat_values", <<Pvals>>)

GetNumPores(Ptype) ==
    Call(Return(Self, get_num_pores(Self, Ptype)), "get_num_pores", <<Ptype>>)

GetNumThroats(Ttype) ==
    Call(Return(Self, get_num_throats(Self, Ttype)), "get_num_throats", <<Ttype>>)

\* sequences over S of length lo..hi
SeqsOf(S, lo, hi) == UNION {[1..n -> S] : n \in lo..hi}

Layouts == {"coo", "csr", "lil"}

(***************************************************************************)
(* Spec: the life of one network.  Callers append pores and throats and    *)
(* (a change of topology); update() and neighbour queries come             *)
(* in any order.  A query may name an ID one past the last pore.  The      *)
(* type arrays matter to the caches only through the counts, so the        *)
(* appended elements are of the internal type.                             *)
(***************************************************************************)
Init == \E ty \in PTypes : Populated(<<ty>>, <<>>, <<>>)

Next ==
    \/ AddPore(InternalType)
    \/ \E pr \in Pairs(NumP) : AddThroat(pr[1], pr[2], InternalType)
    \/ Update
    \/ \E p \in 0..NumP, fl \in BOOLEAN : GetNeighborPores(<<p>>, DefaultPtype, fl)
    \/ \E p \in 0..NumP, fl \in BOOLEAN : GetNeighborThroats(<<p>>, DefaultTtype, fl)

Spec == Init /\ [][Next]_vars

(***************************************************************************)
(* Specifications for the queries as functions of the network.  Init draws *)
(* a well-formed populated network; each behaviour makes its calls on a    *)
(* cache that is still absent (the query builds it) or was just rebuilt by *)
(* update().                                                               *)
(***************************************************************************)
Networks(PT, TT) ==
    \E np \in 1..MaxP, nt \in 0..MaxT :
        \E ptype \in [1..np -> PT], conns \in [1..nt -> Pairs(np)],
           ttype \in [1..nt -> TT] :
            Populated(ptype, conns, ttype)

\* n pores in a line, throats (0,1),(1,2),..., every type internal
LineConns(n) == [i \in 1..(n - 1) |-> <<i - 1, i>>]

Line(n) == Populated([i \in 1..n |-> InternalType], LineConns(n),
                     [i \in 1..(n - 1) |-> InternalType])

Lines == \E n \in 2..LineLen : Line(n)

Unqueried == ret.op \in {"__init__", "update"}

\* lists of valid pore IDs, and the list of all of them
PoreLists == SeqsOf(0..(NumP - 1), 0, MaxLen) \cup {r_(NumP)}

PoreFilters == {DefaultPtype, {InternalType}, {1}}

ThroatFilters == {DefaultTtype, {-1}}

InitPores == Networks(PTypes, {InternalType}) \/ Lines

NextPores ==
    \/ ret.op = "__init__" /\ Update
    \/ /\ Unqueried
       /\ \E Pnums \in PoreLists, Ptype \in PoreFilters, fl \in BOOLEAN :
             GetNeighborPores(Pnums, Ptype, fl)
    \/ /\ Unqueried
       /\ \E Pnums \in PoreLists, Ptype \in PoreFilters :
             GetNumNeighbors(Pnums, Ptype)

SpecPores == InitPores /\ [][NextPores]_vars

InitThroats == Networks({InternalType}, TTypes)

NextThroats ==
    \/ ret.op = "__init__" /\ Update
    \/ /\ Unqueried
       /\ \E Pnums \in PoreLists, Ttype \in ThroatFilters, fl \in BOOLEAN :
             GetNeighborThroats(Pnums, Ttype, fl)
    \/ /\ Unqueried
       /\ \E Pnums \in PoreLists, Ptype \in PoreFilters, fl \in BOOLEAN :
             GetNeighborPores(Pnums, Ptype, fl)
    \/ /\ Unqueried
       /\ \E pr \in Pairs(NumP) : GetConnectingThroat(pr[1], pr[2])

SpecThroats == InitThroats /\ [][NextThroats]_vars

\* throat-value arrays: every length from 0 to one more than the throats
ThroatValues == SeqsOf({Float(v) : v \in 1..MaxVal}, 0, NumT + 1)

InitInterp == Networks(PTypes, TTypes)

NextInterp ==
    \/ ret.op = "__init__" /\ Update
    \/ /\ Unqueried
       /\ \E Tvals \in ThroatValues : InterpolatePoreValues(Tvals)

SpecInterp == InitInterp /\ [][NextInterp]_vars

\* weight arrays of the right length, and one that is too long
Weights == [1..NumT -> (-1)..MaxVal] \cup {ones(NumT + 1)}

InitBuild == Networks({InternalType}, {InternalType})

NextBuild ==
    \/ ret.op = "__init__" /\ Update
    \/ /\ Unqueried
       /\ \E fmt \in Layouts \cup {"all"}, dz \in BOOLEAN, sym \in BOOLEAN :
             \/ CreateAdjacencyMatrix(EmptyDict, fmt, dz, sym)
             \/ \E w \in Weights : CreateAdjacencyMatrix("w" :> w, fmt, dz, sym)

SpecBuild == InitBuild /\ [][NextBuild]_vars

(***************************************************************************)
(* SpecRound: the round trip of the two interpolations on a simple cycle   *)
(* of n pores, every element of the internal type; throat i joins pores    *)
(* i and i+1 (mod n), stored in either order.                              *)
(***************************************************************************)
CycleLen == 4

CycleConns(n, flip) ==
    [i \in 1..n |-> IF flip[i] THEN <<i % n, i - 1>> ELSE <<i - 1, i % n>>]

Cycles ==
    \E n \in 2..CycleLen : \E flip \in [1..n -> BOOLEAN] :
        Populated([i \in 1..n |-> InternalType], CycleConns(n, flip),
                  [i \in 1..n |-> InternalType])

InitRound == Cycles

NextRound ==
    \/ ret.op = "__init__" /\ Update
    \/ /\ Unqueried
       /\ \E Tvals \in ThroatValues : InterpolatePoreValues(Tvals)
    \/ /\ ret.op = "interpolate_pore_values"
       /\ ret.raised = "none"
       /\ InterpolateThroatValues(ret.value)

SpecRound == InitRound /\ [][NextRound]_vars

(***************************************************************************)
(* SpecDegraded: stores without explicit typing.  The pore and the throat  *)
(* dictionary hold their 'numbering' (and the throats their 'connections') *)
(* but either may lack the 'type' array.                                   *)
(***************************************************************************)
Untyped(np, conns, hasP, hasT) ==
    /\ pore_properties =
          (IF hasP THEN [numbering |-> r_(np), type |-> [i \in 1..np |-> InternalType]]
           ELSE [numbering |-> r_(np)])
    /\ throat_properties =
          (IF hasT THEN [connections |-> conns, numbering |-> r_(Len(conns)),
                         type |-> [i \in DOMAIN conns |-> InternalType]]
           ELSE [connections |-> conns, numbering |-> r_(Len(conns))])
    /\ adjacency_matrix = EmptyCache
    /\ incidence_matrix = EmptyCache
    /\ ret = [op |-> "__init__", args |-> <<>>, raised |-> "none", value |-> None]
    /\ simulation = EmptyDict
    /\ objects = <<>>

InitDegraded ==
    \E np \in 1..MaxP, nt \in 0..MaxT, hasP \in BOOLEAN, hasT \in BOOLEAN :
        \E conns \in [1..nt -> Pairs(np)] : Untyped(np, conns, hasP, hasT)

\* lists of IDs of the pores the 'numbering' array names
NumberedLists == SeqsOf(Range(pore_properties["numbering"]), 0, MaxLen)

NextDegraded ==
    \/ ret.op = "__init__" /\ Update
    \/ /\ Unqueried
       /\ \E Ptype \in PoreFilters : GetNumPores(Ptype)
    \/ /\ Unqueried
       /\ \E Ttype \in ThroatFilters \cup {DefaultCountTtype} : GetNumThroats(Ttype)
    \/ /\ Unqueried
       /\ \E Pnums \in NumberedLists, Ptype \in PoreFilters, fl \in BOOLEAN :
             GetNeighborPores(Pnums, Ptype, fl)
    \/ /\ Unqueried
       /\ \E Pnums \in NumberedLists, Ttype \in ThroatFilters, fl \in BOOLEAN :
             GetNeighborThroats(Pnums, Ttype, fl)

SpecDegraded == InitDegraded /\ [][NextDegraded]_vars

(***************************************************************************)
(* SpecLayouts: explicit builds of either matrix, of one layout or of all, *)
(* on caches that are empty, fresh from update(), or stale because a       *)
(* throat was appended after update().                                     *)
(***************************************************************************)
Unbuilt == ret.op \in {"__init__", "update", "add_throat"}

\* no argument, unit weights, weights 0,1,2,..., and an array too long
BuildArgs == {EmptyDict, "w" :> ones(NumT), "w" :> r_(NumT), "w" :> ones(NumT + 1)}

InitLayouts == Networks({InternalType}, {InternalType})

NextLayouts ==
    \/ ret.op = "__init__" /\ Update
    \/ /\ ret.op = "update"
       /\ \E pr \in Pairs(NumP) : AddThroat(pr[1], pr[2], InternalType)
    \/ /\ Unbuilt
       /\ \E V \in BuildArgs, fmt \in Layouts \cup {"all"}, dz \in BOOLEAN,
             sym \in BOOLEAN : CreateAdjacencyMatrix(V, fmt, dz, sym)
    \/ /\ Unbuilt
       /\ \E V \in BuildArgs, fmt \in Layouts \cup {"all"}, dz \in BOOLEAN :
             CreateIncidenceMatrix(V, fmt, dz)

SpecLayouts == InitLayouts /\ [][NextLayouts]_vars

(***************************************************************************)
(* Controller: the simulation is a dictionary from names to objects.  An   *)
(* object is named by its place in the heap  objects  (its identity) and   *)
(* is itself a dictionary (entries) with the attributes name, _sim and the *)
(* three tracking lists, which hold identities.                            *)
(***************************************************************************)
MaxObj == 3
MaxEntries == 2

ObjNames == {"geo", "air"}

\* the object's _sim: the controller, or the empty dictionary
TheSimulation == [ref |-> "Controller"]

\* d.pop(k, None)
Pop(d, k) == [x \in DOMAIN d \ {k} |-> d[x]]

\* [x for x in list if x is not obj]
IsNot(list, obj) == SelectSeq(list, LAMBDA x : x # obj)

\* the body of the loop of drop, for one item of the simulation
Swept(item, name, obj) ==
    [item EXCEPT !.entries = Pop(Pop(@, "pore." \o name), "throat." \o name),
                 !._geometries = IsNot(@, obj),
                 !._phases = IsNot(@, obj),
                 !._physics = IsNot(@, obj)]

\* the objects the simulation holds
Items(self) == {self[k] : k \in DOMAIN self}

SweepAll(self, heap, name, obj) ==
    [i \in DOMAIN heap |-> IF i \in Items(self) THEN Swept(heap[i], name, obj)
                           ELSE heap[i]]

\* after the loop: self[name]._sim = {} and del self[name]
DropSwept(self, heap, name) ==
    IF ~HasKey(self, name)
    THEN [raised |-> "KeyError", self |-> self, objects |-> heap]
    ELSE [raised |-> "none", self |-> Pop(self, name),
          objects |-> [heap EXCEPT ![self[name]]._sim = EmptyDict]]

\* drop that forgets the physics list of the items
drop_keeps_physics(self, heap, obj) ==
    DropSwept(self,
              [i \in DOMAIN heap |->
                  [SweepAll(self, heap, heap[obj].name, obj)[i]
                      EXCEPT !._physics = heap[i]._physics]],
              heap[obj].name)

drop(self, heap, obj) ==
    DropSwept(self, SweepAll(self, heap, heap[obj].name, obj), heap[obj].name)

\* a new object: an empty dictionary, empty tracking lists, no simulation
NewObject(name) ==
    [name |-> name, entries |-> EmptyDict, _sim |-> EmptyDict,
     _geometries |-> <<>>, _phases |-> <<>>, _physics |-> <<>>]

ObjIds == DOMAIN objects

\* the number of dictionary entries and tracked references in the heap
Held == LET n(i) == Cardinality(DOMAIN objects[i].entries) + Len(objects[i]._geometries)
                      + Len(objects[i]._phases) + Len(objects[i]._physics)
        IN  SumIdx(ObjIds, [i \in ObjIds |-> n(i)])

EntryKeys == {"pore." \o n : n \in ObjNames} \cup {"throat." \o n : n \in ObjNames}
                \cup {"pore.all"}

NetworkIdle ==
    UNCHANGED <<pore_properties, throat_properties, adjacency_matrix, incidence_matrix>>

Setup == [op |-> "setup", args |-> <<>>, raised |-> "none", value |-> None]

\* Controller(obj) / load: the object joins the simulation under its name
Register(o) ==
    /\ simulation' = SetItem(simulation, objects[o].name, o)
    /\ objects' = [objects EXCEPT ![o]._sim = TheSimulation]
    /\ ret' = Setup
    /\ NetworkIdle

\* a caller stores a label array on an object
SetEntry(o, k) ==
    /\ Held < MaxEntries
    /\ objects' = [objects EXCEPT ![o].entries = SetItem(@, k, <<TRUE>>)]
    /\ ret' = Setup
    /\ UNCHANGED simulation
    /\ NetworkIdle

\* a caller appends object x to one of the tracking lists of object o
Associate(o, list, x) ==
    /\ Held < MaxEntries
    /\ objects' = [objects EXCEPT ![o][list] = Append(@, x)]
    /\ ret' = Setup
    /\ UNCHANGED simulation
    /\ NetworkIdle

Drop(o) ==
    /\ simulation' = drop(simulation, objects, o).self
    /\ objects' = drop(simulation, objects, o).objects
    /\ ret' = [op |-> "drop", args |-> <<o>>,
               raised |-> drop(simulation, objects, o).raised, value |-> None]
    /\ NetworkIdle

InitSim ==
    /\ pore_properties = EmptyDict
    /\ throat_properties = EmptyDict
    /\ adjacency_matrix = EmptyCache
    /\ incidence_matrix = EmptyCache
    /\ ret = [op |-> "__init__", args |-> <<>>, raised |-> "none", value |-> None]
    /\ simulation = EmptyDict
    /\ \E names \in [1..MaxObj -> ObjNames] :
          objects = [i \in 1..MaxObj |-> NewObject(names[i])]

NextSim ==
    \/ \E o \in ObjIds : Register(o)
    \/ \E o \in ObjIds, k \in EntryKeys : SetEntry(o, k)
    \/ \E o \in ObjIds, x \in ObjIds, list \in {"_geometries", "_phases", "_physics"} :
          Associate(o, list, x)
    \/ \E o \in ObjIds : Drop(o)

SpecSim == InitSim /\ [][NextSim]_vars

(***************************************************************************)
(* What the claims speak of: the topology the property arrays give, and    *)
(* the entries a stored matrix holds.                                      *)
(***************************************************************************)
PoreIds == 0..(NumP - 1)
ThroatIds == 0..(NumT - 1)
Conns == throat_properties["connections"]
PoreType(p) == pore_properties["type"][p + 1]

\* throat t joins pores p and q
Joins(t, p, q) == Conns[t + 1] = <<p, q>> \/ Conns[t + 1] = <<q, p>>

Adjacent(p, q) == \E t \in ThroatIds : Joins(t, p, q)

\* throat t has pore p at one of its ends
Touches(t, p) == Conns[t + 1][1] = p \/ Conns[t + 1][2] = p

Isolated(p) == \A t \in ThroatIds : ~Touches(t, p)

StrictlyIncreasing(a) == \A i, j \in DOMAIN a : i < j => a[i] < a[j]

\* position of column j in a stored row, 0 when it is not stored
ColPos(cols, j) == IF \E k \in DOMAIN cols : cols[k] = j
                   THEN CHOOSE k \in DOMAIN cols : cols[k] = j ELSE 0

RowValue(cols, vals, j) == IF ColPos(cols, j) = 0 THEN 0 ELSE vals[ColPos(cols, j)]

\* the value of entry (i,j) of a stored matrix, in whichever layout
ValueAt(m, i, j) ==
    CASE m.fmt = "coo" ->
           SumIdx({k \in DOMAIN m.row : m.row[k] = i /\ m.col[k] = j}, m.data)
      [] m.fmt = "csr" ->
           RowValue(SubSeq(m.indices, m.indptr[i + 1] + 1, m.indptr[i + 2]),
                    SubSeq(m.data, m.indptr[i + 1] + 1, m.indptr[i + 2]), j)
      [] m.fmt = "lil" -> RowValue(m.rows[i + 1], m.data[i + 1], j)

NonZero(m) == {ij \in (0..(m.shape[1] - 1)) \X (0..(m.shape[2] - 1)) :
                  ValueAt(m, ij[1], ij[2]) # 0}

\* the positions a matrix stores, explicit zeros included
Stored(m) ==
    CASE m.fmt = "coo" -> {<<m.row[k], m.col[k]>> : k \in DOMAIN m.row}
      [] m.fmt = "csr" ->
           UNION {{<<i, m.indices[k]>> : k \in (m.indptr[i + 1] + 1)..m.indptr[i + 2]} :
                    i \in 0..(m.shape[1] - 1)}
      [] m.fmt = "lil" ->
           UNION {{<<i, m.rows[i + 1][k]>> : k \in DOMAIN m.rows[i + 1]} :
                    i \in 0..(m.shape[1] - 1)}

AdjacencyEdges == {ij \in PoreIds \X PoreIds : Adjacent(ij[1], ij[2])}

IncidenceEdges == {pt \in PoreIds \X ThroatIds : Touches(pt[2], pt[1])}

\* the layouts a build with this sprsfmt writes
Written(sprsfmt) == IF sprsfmt = "all" THEN Layouts ELSE {sprsfmt}

QueryOps == {"get_neighbor_pores", "get_neighbor_throats"}

(***************************************************************************)
(* C1.  For a non-empty list of valid pore IDs, get_neighbor_pores with    *)
(* flatten=True returns a strictly increasing sequence holding exactly the *)
(* pores that are adjacent to an input pore, are no input pore themselves  *)
(* and have a type in Ptype.                                               *)
(***************************************************************************)
C1_FlatNeighborPores ==
    (ret.op = "get_neighbor_pores" /\ ret.args[3] /\ ret.args[1] # <<>>) =>
        /\ ret.raised = "none"
        /\ StrictlyIncreasing(ret.value)
        /\ Range(ret.value) =
              {q \in PoreIds : /\ q \notin Range(ret.args[1])
                               /\ PoreType(q) \in ret.args[2]
                               /\ \E p \in Range(ret.args[1]) : Adjacent(p, q)}

(***************************************************************************)
(* C2.  A cached 'connections' matrix changes only in an explicit build or *)
(* update(), or in a neighbour query that finds the list-of-rows entry     *)
(* absent: once the entry exists, no query and no mutation of the arrays   *)
(* changes the cache.                                                      *)
(***************************************************************************)
C2_CacheChangesOnlyOnBuild ==
    [][/\ adjacency_matrix' # adjacency_matrix =>
            \/ ret'.op \in {"update", "create_adjacency_matrix"}
            \/ /\ ret'.op = "get_neighbor_pores"
               /\ ~HasKey(adjacency_matrix.lil, "connections")
       /\ incidence_matrix' # incidence_matrix =>
            \/ ret'.op \in {"update", "create_incidence_matrix"}
            \/ /\ ret'.op = "get_neighbor_throats"
               /\ ~HasKey(incidence_matrix.lil, "connections")]_vars

(***************************************************************************)
(* C3.  After update() both caches hold 'connections' in the three         *)
(* layouts, each entry of the shape of the current arrays and non-zero     *)
(* exactly on the current edge set, and a neighbour query made next        *)
(* answers from the current topology.                                      *)
(***************************************************************************)
C3_UpdateRebuildsAll ==
    ret.op = "update" =>
        /\ ret.raised = "none"
        /\ \A l \in Layouts :
              /\ HasKey(adjacency_matrix[l], "connections")
              /\ adjacency_matrix[l]["connections"].fmt = l
              /\ adjacency_matrix[l]["connections"].shape = <<NumP, NumP>>
              /\ NonZero(adjacency_matrix[l]["connections"]) = AdjacencyEdges
              /\ HasKey(incidence_matrix[l], "connections")
              /\ incidence_matrix[l]["connections"].fmt = l
              /\ incidence_matrix[l]["connections"].shape = <<NumP, NumT>>
              /\ NonZero(incidence_matrix[l]["connections"]) = IncidenceEdges
        /\ \A p \in PoreIds :
              /\ Range(get_neighbor_pores(Self, <<p>>, DefaultPtype, FALSE).value[1])
                    = {q \in PoreIds : Adjacent(p, q)}
              /\ Range(get_neighbor_throats(Self, <<p>>, DefaultTtype, FALSE).value[1])
                    = {t \in ThroatIds : Touches(t, p)}

\* update() has run on a network with throats, one of them between two pores
C3_Witness ==
    /\ ret.op = "update"
    /\ NumT >= 2
    /\ \E p, q \in PoreIds : p # q /\ Adjacent(p, q)

(***************************************************************************)
(* C4.  get_connecting_throat(p, q) gives what get_connecting_throat(q, p) *)
(* gives, never raises, and returns exactly the IDs of the throats whose   *)
(* connections pair joins p and q (none when no throat joins them).        *)
(***************************************************************************)
C4_ConnectingThroat ==
    ret.op = "get_connecting_throat" =>
        /\ get_connecting_throat(Self, ret.args[2], ret.args[1]).raised = ret.raised
        /\ get_connecting_throat(Self, ret.args[2], ret.args[1]).value = ret.value
        /\ ret.raised = "none"
        /\ Range(ret.value) = {t \in ThroatIds : Joins(t, ret.args[1], ret.args[2])}

(***************************************************************************)
(* C5.  A neighbour query on input pores that are all isolated, or with a  *)
(* type filter that none of the neighbours matches, never raises and       *)
(* returns nothing: an empty sequence with flatten=True, one empty         *)
(* sequence per input pore with flatten=False.                             *)
(***************************************************************************)
NoElements(value, Pnums, flatten) ==
    IF flatten THEN value = <<>> ELSE value = [i \in DOMAIN Pnums |-> <<>>]

C5_EmptyNeverRaises ==
    /\ (/\ ret.op \in QueryOps
        /\ ret.args[1] # <<>>
        /\ \A p \in Range(ret.args[1]) : Isolated(p)) =>
            /\ ret.raised = "none"
            /\ NoElements(ret.value, ret.args[1], ret.args[3])
    /\ (/\ ret.op = "get_neighbor_pores"
        /\ ret.args[1] # <<>>
        /\ \A p \in Range(ret.args[1]), q \in PoreIds :
              Adjacent(p, q) => PoreType(q) \notin ret.args[2]) =>
            /\ ret.raised = "none"
            /\ NoElements(ret.value, ret.args[1], ret.args[3])
    /\ (/\ ret.op = "get_neighbor_throats"
        /\ ret.args[1] # <<>>
        /\ \A p \in Range(ret.args[1]), t \in ThroatIds :
              Touches(t, p) => throat_properties["type"][t + 1] \notin ret.args[2]) =>
            /\ ret.raised = "none"
            /\ NoElements(ret.value, ret.args[1], ret.args[3])

(***************************************************************************)
(* C6.  interpolate_pore_values with an array whose length is neither 1    *)
(* nor the throat count raises, and the call leaves the property arrays    *)
(* and both caches as they were (an absent entry stays absent).            *)
(***************************************************************************)
C6_WrongLengthLeavesStore ==
    [][(/\ ret'.op = "interpolate_pore_values"
        /\ Len(ret'.args[1]) # 1
        /\ Len(ret'.args[1]) # NumT) =>
            /\ ret'.raised = "Exception"
            /\ ret'.value = None
            /\ UNCHANGED <<pore_properties, throat_properties,
                           adjacency_matrix, incidence_matrix>>]_vars

\* a wrong-length call was made on a network whose caches were never built
C6_Witness ==
    /\ ret.op = "interpolate_pore_values"
    /\ Len(ret.args[1]) = NumT + 1
    /\ NumT >= 1
    /\ ret.raised = "Exception"
    /\ incidence_matrix = EmptyCache
    /\ adjacency_matrix = EmptyCache

(***************************************************************************)
(* C7.  get_num_neighbors returns one count per input pore, in input       *)
(* order: the number of pores adjacent to that pore whose type is in       *)
(* Ptype, which is the length of the matching row of get_neighbor_pores    *)
(* with flatten=False.  On the line of 5 pores the counts of [0,1,2,3,4]   *)
(* are [1,2,2,2,1].                                                        *)
(***************************************************************************)
IsLine5 == NumP = 5 /\ Conns = LineConns(5) /\ \A p \in PoreIds : PoreType(p) = 0

TouchingValues(Tvals, p) ==
    Take(Tvals, SortSet({t \in ThroatIds : Touches(t, p)}))

C8_PoreMeans ==
    (ret.op = "interpolate_pore_values" /\ Len(ret.args[1]) = NumT) =>
        /\ ret.raised = "none"
        /\ Len(ret.value) = NumP
        /\ \A p \in PoreIds :
              ret.value[p + 1] = IF PoreType(p) = InternalType
                                 THEN mean(TouchingValues(ret.args[1], p))
                                 ELSE Float(0)

(***************************************************************************)
(* C9.  create_adjacency_matrix with a weight array and dropzeros=True     *)
(* leaves out exactly the throats whose weight is zero: the entries it     *)
(* stores are those of the throats with a non-zero weight, so the          *)
(* coordinate list holds one triplet (two when mirrored) per such throat.  *)
(***************************************************************************)
WeightedThroats(w) == {t \in ThroatIds : w[t + 1] # 0}

EdgesOf(ts, sym) ==
    {Conns[t + 1] : t \in ts}
        \cup (IF sym THEN {<<Conns[t + 1][2], Conns[t + 1][1]>> : t \in ts} ELSE {})

C9_DropZerosOnlyZeros ==
    (/\ ret.op = "create_adjacency_matrix"
     /\ Truthy(ret.args[1])
     /\ ret.args[3]
     /\ ret.raised = "none") =>
        \A l \in Written(ret.args[2]) :
            /\ HasKey(adjacency_matrix[l], "w")
            /\ Stored(adjacency_matrix[l]["w"])
                  = EdgesOf(WeightedThroats(ret.args[1]["w"]), ret.args[4])
            /\ l = "coo" =>
                  Len(adjacency_matrix[l]["w"].row)
                      = (IF ret.args[4] THEN 2 ELSE 1)
                          * Cardinality(WeightedThroats(ret.args[1]["w"]))

(***************************************************************************)
(* C10.  The matrix create_adjacency_matrix builds with its default        *)
(* arguments is Np by Np, its entry (i,j) is non-zero exactly when a       *)
(* throat joins i and j, and so (i,j) is non-zero exactly when (j,i) is.   *)
(***************************************************************************)
C10_DefaultAdjacency ==
    (/\ ret.op = "create_adjacency_matrix"
     /\ ~Truthy(ret.args[1])
     /\ ret.args[3]
     /\ ret.args[4]) =>
        /\ ret.raised = "none"
        /\ \A l \in Written(ret.args[2]) :
              /\ HasKey(adjacency_matrix[l], "connections")
              /\ adjacency_matrix[l]["connections"].shape = <<NumP, NumP>>
              /\ \A i, j \in PoreIds :
                    /\ ValueAt(adjacency_matrix[l]["connections"], i, j) # 0
                          <=> Adjacent(i, j)
                    /\ ValueAt(adjacency_matrix[l]["connections"], i, j) # 0
                          <=> ValueAt(adjacency_matrix[l]["connections"], j, i) # 0

\* a default build of all layouts on a network with a throat stored as
\* (i,j), i < j, only: the entry (j,i) comes from the mirroring
C10_Witness ==
    /\ ret.op = "create_adjacency_matrix"
    /\ ~Truthy(ret.args[1])
    /\ ret.args[2] = "all"
    /\ ret.args[3]
    /\ ret.args[4]
    /\ \E t \in ThroatIds :
          /\ Conns[t + 1][1] < Conns[t + 1][2]
          /\ \A u \in ThroatIds : Conns[u + 1] # <<Conns[t + 1][2], Conns[t + 1][1]>>
          /\ ValueAt(adjacency_matrix.lil["connections"],
                     Conns[t + 1][2], Conns[t + 1][1]) # 0

(***************************************************************************)
(* C11.  update() called again right after update(), the property arrays   *)
(* untouched in between, raises nothing and leaves both caches exactly as  *)
(* the first call left them: every entry of every layout is identical.     *)
(***************************************************************************)
C11_UpdateIdempotent ==
    ret.op = "update" =>
        /\ ret.raised = "none"
        /\ update(Self).raised = "none"
        /\ update(Self).self.adjacency_matrix = adjacency_matrix
        /\ update(Self).self.incidence_matrix = incidence_matrix
        /\ update(Self).self = Self

\* update() has run on a network with two throats between the same pores
\* (their triplets are summed in the compressed layouts)
C11_Witness ==
    /\ ret.op = "update"
    /\ ret.raised = "none"
    /\ NumT = 2
    /\ Conns[1] = Conns[2]
    /\ Len(adjacency_matrix.coo["connections"].row) = 4

(***************************************************************************)
(* C12.  On a simple cycle with every pore internal,                       *)
(* interpolate_throat_values(interpolate_pore_values(T)) is, for a throat  *)
(* t whose neighbours on the cycle are the throats a and b, the value      *)
(* (2 T[t] + T[a] + T[b]) / 4; it equals T exactly when all values of T    *)
(* are equal, and differs from T otherwise.                                *)
(***************************************************************************)
\* every pore is touched by exactly two throats and is internal
SimpleCycle ==
    /\ NumT = NumP
    /\ \A p \in PoreIds :
          /\ Cardinality({t \in ThroatIds : Touches(t, p)}) = 2
          /\ PoreType(p) = InternalType

\* the throat that meets throat t at pore p
OtherThroat(t, p) == CHOOSE u \in ThroatIds : u # t /\ Touches(u, p)

Smoothed(T, t) ==
    MeanOfSum(FracSum(<<T[t + 1], T[t + 1],
                        T[OtherThroat(t, Conns[t + 1][1]) + 1],
                        T[OtherThroat(t, Conns[t + 1][2]) + 1]>>), 4)

Constant(T) == \A i, j \in DOMAIN T : T[i] = T[j]

\* the step that feeds the outcome of interpolate_pore_values(T), T as long
\* as the throat count, to interpolate_throat_values
RoundTripStep ==
    /\ SimpleCycle
    /\ ret.op = "interpolate_pore_values"
    /\ Len(ret.args[1]) = NumT
    /\ ret'.op = "interpolate_throat_values"
    /\ ret'.args[1] = ret.value

NoPoreType == ~HasKey(pore_properties, "type")

NoThroatType == ~HasKey(throat_properties, "type")

C13_CountsDegrade ==
    /\ (ret.op = "get_num_pores" /\ NoPoreType) =>
            ret.raised = "none" /\ ret.value = 0
    /\ (ret.op = "get_num_throats" /\ NoThroatType) =>
            ret.raised = "none" /\ ret.value = 0

C13_DegradedQueries ==
    /\ C13_CountsDegrade
    /\ (ret.op = "get_neighbor_pores" /\ NoPoreType /\ ret.args[1] # <<>>) =>
            /\ ret.raised = "none"
            /\ NoElements(ret.value, ret.args[1], ret.args[3])
    /\ (ret.op = "get_neighbor_throats" /\ NoThroatType /\ ret.args[1] # <<>>) =>
            /\ ret.raised = "none"
            /\ NoElements(ret.value, ret.args[1], ret.args[3])

(***************************************************************************)
(* C14.  drop(obj) on an object registered in the simulation under its     *)
(* name raises nothing and leaves: the name no key of the simulation, the  *)
(* other keys as they were; no remaining object with obj in one of its     *)
(* three lists or with a 'pore.<name>' / 'throat.<name>' entry; obj's _sim *)
(* the empty dictionary; and every other object with its name, its _sim,   *)
(* its other list members (in order) and its other entries unchanged.      *)
(***************************************************************************)
Registered(o) ==
    HasKey(simulation, objects[o].name) /\ simulation[objects[o].name] = o

TrackingLists == {"_geometries", "_phases", "_physics"}

LabelsOf(name) == {"pore." \o name, "throat." \o name}

\* what drop(o) must leave of object x, another object than o: an object
\* outside the simulation as it was, an object of the simulation with
\* nothing changed but the traces of o
Untouched(x, o, name) ==
    /\ x \notin Items(simulation) => objects'[x] = objects[x]
    /\ objects'[x].name = objects[x].name
    /\ objects'[x]._sim = objects[x]._sim
    /\ \A l \in TrackingLists :
          SelectSeq(objects'[x][l], LAMBDA y : y # o)
              = SelectSeq(objects[x][l], LAMBDA y : y # o)
    /\ \A l \in TrackingLists :
          objects'[x][l] \in {objects[x][l], SelectSeq(objects[x][l], LAMBDA y : y # o)}
    /\ DOMAIN objects'[x].entries \subseteq DOMAIN objects[x].entries
    /\ \A k \in DOMAIN objects[x].entries \ LabelsOf(name) :
          /\ HasKey(objects'[x].entries, k)
          /\ objects'[x].entries[k] = objects[x].entries[k]

Dropped(o, name) ==
    /\ ret'.raised = "none"
    /\ DOMAIN simulation' = DOMAIN simulation \ {name}
    /\ \A k \in DOMAIN simulation' : simulation'[k] = simulation[k]
    /\ \A x \in Items(simulation') :
          /\ \A l \in TrackingLists : o \notin Range(objects'[x][l])
          /\ DOMAIN objects'[x].entries \cap LabelsOf(name) = {}
    /\ objects'[o]._sim = EmptyDict
    /\ DOMAIN objects' = DOMAIN objects
    /\ \A x \in ObjIds \ {o} : Untouched(x, o, name)

WeightName(V) == IF Truthy(V) THEN FirstKey(V) ELSE "connections"

\* cache before and after a build of tprop in the layouts of sprsfmt that
\* returned value; shape is the shape of the matrix built
BuildWrote(before, after, tprop, sprsfmt, value, shape) ==
    /\ sprsfmt \in Layouts \cup {"all"}
    /\ \A l \in Written(sprsfmt) :
          /\ DOMAIN after[l] = DOMAIN before[l] \cup {tprop}
          /\ after[l][tprop].fmt = l
          /\ after[l][tprop].shape = shape
          /\ \A k \in DOMAIN before[l] \ {tprop} : after[l][k] = before[l][k]
    /\ \A l, m \in Written(sprsfmt) : NonZero(after[l][tprop]) = NonZero(after[m][tprop])
    /\ \A l \in Layouts \ Written(sprsfmt) : after[l] = before[l]
    /\ value = (IF sprsfmt = "all" THEN None ELSE after[sprsfmt][tprop])

C15_BuildWritesNamedLayouts ==
    [][/\ (ret'.op = "create_adjacency_matrix" /\ ret'.raised = "none") =>
            /\ BuildWrote(adjacency_matrix, adjacency_matrix',
                          WeightName(ret'.args[1]), ret'.args[2], ret'.value,
                          <<NumP, NumP>>)
            /\ UNCHANGED <<incidence_matrix, pore_properties, throat_properties>>
       /\ (ret'.op = "create_incidence_matrix" /\ ret'.raised = "none") =>
            /\ BuildWrote(incidence_matrix, incidence_matrix',
                          WeightName(ret'.args[1]), ret'.args[2], ret'.value,
                          <<NumP, NumT>>)
            /\ UNCHANGED <<adjacency_matrix, pore_properties, throat_properties>>
      ]_vars

\* a throat was appended after update() and the list-of-rows layout alone
\* was rebuilt: under 'connections' it holds the current edges, the
\* coordinate layout still the edges of before
C15_Witness ==
    /\ ret.op = "create_adjacency_matrix"
    /\ ret.raised = "none"
    /\ ret.args[2] = "lil"
    /\ ~Truthy(ret.args[1])
    /\ ret.args[4]
    /\ HasKey(adjacency_matrix.coo, "connections")
    /\ NonZero(adjacency_matrix.lil["connections"]) = AdjacencyEdges
    /\ NonZero(adjacency_matrix.coo["connections"]) # AdjacencyEdges
    /\ ret.value = adjacency_matrix.lil["connections"]

====
